---- MODULE Spec2Model ----
(***************************************************************************)
(* Model of the indoor routing backend (src/app.py): the graph built by    *)
(* load_graph, the LIVE_STATE store and its update handler, the constraint *)
(* filter, the arc cost, the heuristic and the A* search of astar_route,   *)
(* run one loop step at a time so that store updates can interleave.       *)
(*                                                                         *)
(* Numbers.  Python floats are modelled by exact rationals held as         *)
(* integers: speeds, speedFactor, crowdLevel and hazardLevel are held in   *)
(* tenths (1.2 m/s is 12, a crowdLevel of 0.5 is 5), lengths in metres     *)
(* (node positions are chosen so that every Euclidean distance is a whole  *)
(* number), and every cost, g-score and f-score in units of 1/Unit.        *)
(*                                                                         *)
(* Strings.  Node and edge ids are sequences of tokens, so that            *)
(* f"{u}__{v}" is a concatenation: the id of the arc from <<"A">> to       *)
(* <<"B">> is <<"A", "__", "B">>.                                          *)
(***************************************************************************)
EXTENDS Integers, Sequences, FiniteSets, TLC

VARIABLES
    EDGES,            \* app.py:53   the edge list load_graph was given
    NODES,            \* app.py:307  node id -> [pos |-> <<x, y, z>>]
    ADJ,              \* app.py:307  node id -> sequence of outgoing edge ids
    ARCS,             \* app.py:307  edge id -> Arc
    LIVE_STATE,       \* app.py:95   [graphVersion, edges]
    update,           \* api_state_update in flight: between its two writes
    pc,               \* position of the api_route / astar_route invocation
    req,              \* the request being served
    open_heap,        \* astar_route locals ...
    tie,
    g_score,
    came_from_node,
    came_from_edge,
    in_open,
    closed,
    current,
    idx,              \* position of the for loop in adj[current]
    result,           \* what astar_route returned or raised
    response,         \* what api_route answered
    reads,            \* get_edge_state calls made by the running invocation
    prev,             \* result of the previous, identical invocation
    stale,            \* g-scores, links and frontier as they were right after
                      \* the pop of a node that was closed already, else None
    call,             \* frame of a second thread inside arc_allowed or arc_cost
    seen              \* what the running invocation has read of the store:
                      \* the versions its records belong to, and the record
                      \* arc_allowed got for the arc that is about to be priced;
                      \* None in the specifications that keep no such history

vars == <<EDGES, NODES, ADJ, ARCS, LIVE_STATE, update, pc, req, open_heap, tie,
          g_score, came_from_node, came_from_edge, in_open, closed, current,
          idx, result, response, reads, prev, stale, call, seen>>

graph == <<EDGES, NODES, ADJ, ARCS>>
locals == <<open_heap, tie, g_score, came_from_node, came_from_edge,
            in_open, closed, current, idx>>

-----------------------------------------------------------------------------
(* Bounds of the model *)

\* graphVersion is incremented only while below MaxVersion.
MaxVersion == 2

\* Largest weight a request supplies for one criterion.
MaxWeight == 2

-----------------------------------------------------------------------------
(* Program constants, in tenths *)

BASE_SPEED_MPS == 12
V_MAX_MPS == 16
alpha == 8

\* One cost unit is 1/Unit: the product of the denominators of arc_cost and
\* heuristic (speeds in tenths, speedFactor in tenths, alpha * crowdLevel in
\* hundredths).
Unit == BASE_SPEED_MPS * V_MAX_MPS * 10 * 100

-----------------------------------------------------------------------------
(* Python dictionaries and strings *)

EmptyDict == <<>>

\* d.get(k, default)
Get(d, k, default) == IF k \in DOMAIN d THEN d[k] ELSE default

\* d[k] = v
Put(d, k, v) == (k :> v) @@ d

\* f"{u}__{v}"
EdgeId(u, v) == u \o <<"__">> \o v

\* str.lower() on the edge types of the model
Lower(s) ==
    CASE s = "Stairs" -> "stairs"
      [] s = "STAIRS" -> "stairs"
      [] OTHER -> s

Max(a, b) == IF a >= b THEN a ELSE b
Min(a, b) == IF a <= b THEN a ELSE b

\* math.sqrt on the perfect squares the model's positions produce
Sqrt(n) == CHOOSE r \in 0..n : r * r <= n /\ n < (r + 1) * (r + 1)

-----------------------------------------------------------------------------
(* Graph structures *)

Arc(edge_id, u, v, ada, edge_type, length_m) ==
    [edge_id |-> edge_id, u |-> u, v |-> v, ada |-> ada,
     edge_type |-> edge_type, length_m |-> length_m]

euclid_3d(a, b) ==
    LET dx == a[1] - b[1]
        dy == a[2] - b[2]
        dz == a[3] - b[3]
    IN  Sqrt(dx * dx + dy * dy + dz * dz)

\* load_graph.add_arc on the pair g = [adj, arcs]
add_arc(nodes, g, u, v, ada, edge_type) ==
    LET edge_id == EdgeId(u, v)
    IN  IF u \notin DOMAIN nodes \/ v \notin DOMAIN nodes
        THEN g
        ELSE LET length_m == euclid_3d(nodes[u].pos, nodes[v].pos)
                 arc == Arc(edge_id, u, v, ada, edge_type, length_m)
             IN  [arcs |-> Put(g.arcs, edge_id, arc),
                  adj |-> Put(g.adj, u, Append(Get(g.adj, u, <<>>), edge_id))]

\* the loop over the input edges, both directions of each edge
RECURSIVE add_edges(_, _, _, _)
add_edges(nodes, edges, i, g) ==
    IF i > Len(edges) THEN g
    ELSE LET e == edges[i]
             u == e.from
             v == e.to
             ada == Get(e, "ada", FALSE)
             edge_type == Get(e, "type", "corridor")
             g1 == add_arc(nodes, g, u, v, ada, edge_type)
             g2 == add_arc(nodes, g1, v, u, ada, edge_type)
         IN  add_edges(nodes, edges, i + 1, g2)

load_graph(nodes, edges) ==
    LET g == add_edges(nodes, edges, 1, [arcs |-> EmptyDict, adj |-> EmptyDict])
    IN  [nodes |-> nodes,
         adj |-> [nid \in DOMAIN nodes |-> Get(g.adj, nid, <<>>)],
         arcs |-> g.arcs]

-----------------------------------------------------------------------------
(* Live state *)

DefaultState ==
    [status |-> "open", crowdLevel |-> 0, speedFactor |-> 10, hazardLevel |-> 0]

\* get_edge_state on a given content of LIVE_STATE["edges"]
edge_state_of(edges, edge_id) ==
    IF edge_id \notin DOMAIN edges
    THEN DefaultState
    ELSE LET st == edges[edge_id]
         IN  [status |-> Get(st, "status", "open"),
              crowdLevel |-> Get(st, "crowdLevel", 0),
              speedFactor |-> Get(st, "speedFactor", 10),
              hazardLevel |-> Get(st, "hazardLevel", 0)]

get_edge_state(edge_id) == edge_state_of(LIVE_STATE.edges, edge_id)

-----------------------------------------------------------------------------
(* Constraints and cost *)

\* a filter without the ADA gate
allowed_in_state_no_ada(arc, constraints, st) ==
    IF st.status = "blocked" THEN FALSE
    ELSE IF Get(constraints, "avoidStairs", FALSE) /\ Lower(arc.edge_type) = "stairs"
    THEN FALSE
    ELSE TRUE

\* a filter that tests the status for a word the store never holds
allowed_in_state_closed(arc, constraints, st) ==
    IF st.status = "closed" THEN FALSE
    ELSE IF Get(constraints, "avoidStairs", FALSE) /\ Lower(arc.edge_type) = "stairs"
    THEN FALSE
    ELSE IF Get(constraints, "requireElevator", FALSE) /\ ~arc.ada
    THEN FALSE
    ELSE TRUE

\* a filter that compares the type with "stairs" letter for letter
allowed_in_state_exact_case(arc, constraints, st) ==
    IF st.status = "blocked" THEN FALSE
    ELSE IF Get(constraints, "avoidStairs", FALSE) /\ arc.edge_type = "stairs"
    THEN FALSE
    ELSE IF Get(constraints, "requireElevator", FALSE) /\ ~arc.ada
    THEN FALSE
    ELSE TRUE

\* arc_allowed after its read of the live state
allowed_in_state(arc, constraints, st) ==
    IF st.status = "blocked" THEN FALSE
    ELSE IF Get(constraints, "avoidStairs", FALSE) /\ Lower(arc.edge_type) = "stairs"
    THEN FALSE
    ELSE IF Get(constraints, "requireElevator", FALSE) /\ ~arc.ada
    THEN FALSE
    ELSE TRUE

arc_allowed(arc, constraints) ==
    allowed_in_state(arc, constraints, get_edge_state(arc.edge_id))

\* a cost in which a speedFactor below 1 shortens the time
cost_in_state_speedup(arc, weights, st) ==
    LET length_m == arc.length_m
        crowd_level == Max(0, Min(10, st.crowdLevel))
        time_s == length_m * 10 * st.speedFactor
                      * (100 + alpha * crowd_level) * V_MAX_MPS
        crowd_pen == crowd_level * length_m * (Unit \div 10)
        hazard_level == Max(0, Min(10, st.hazardLevel))
        risk_pen == hazard_level * length_m * (Unit \div 10)
    IN  Get(weights, "time", 0) * time_s
        + Get(weights, "distance", 0) * length_m * Unit
        + Get(weights, "crowd", 0) * crowd_pen
        + Get(weights, "risk", 0) * risk_pen

\* arc_cost after its read of the live state, in cost units
cost_in_state(arc, weights, st) ==
    LET length_m == arc.length_m
        \* base_time_s * max(1.0, speedFactor) * (1.0 + alpha * crowd_level)
        \*   = length_m * 10 * max(10, sf) * (100 + alpha * crowd)
        \*     / (BASE_SPEED_MPS * 10 * 100), times Unit
        crowd_level == Max(0, Min(10, st.crowdLevel))
        time_s == length_m * 10 * Max(10, st.speedFactor)
                      * (100 + alpha * crowd_level) * V_MAX_MPS
        crowd_pen == crowd_level * length_m * (Unit \div 10)
        hazard_level == Max(0, Min(10, st.hazardLevel))
        risk_pen == hazard_level * length_m * (Unit \div 10)
        w_time == Get(weights, "time", 0)
        w_dist == Get(weights, "distance", 0)
        w_crowd == Get(weights, "crowd", 0)
        w_risk == Get(weights, "risk", 0)
    IN  w_time * time_s + w_dist * length_m * Unit
        + w_crowd * crowd_pen + w_risk * risk_pen

arc_cost(arc, weights) ==
    cost_in_state(arc, weights, get_edge_state(arc.edge_id))

\* a heuristic that multiplies by the speed where the code divides by it
heuristic_times_speed(node_id, goal_id, nodes, weights) ==
    IF node_id \notin DOMAIN nodes \/ goal_id \notin DOMAIN nodes
    THEN 0
    ELSE LET dist == euclid_3d(nodes[node_id].pos, nodes[goal_id].pos)
         IN  Get(weights, "time", 0) * dist * V_MAX_MPS * (Unit \div 10)
             + Get(weights, "distance", 0) * dist * Unit

\* a heuristic that takes the distance in metres for the time in seconds
heuristic_unit_speed(node_id, goal_id, nodes, weights) ==
    IF node_id \notin DOMAIN nodes \/ goal_id \notin DOMAIN nodes
    THEN 0
    ELSE LET dist == euclid_3d(nodes[node_id].pos, nodes[goal_id].pos)
         IN  Get(weights, "time", 0) * dist * Unit
             + Get(weights, "distance", 0) * dist * Unit

heuristic(node_id, goal_id, nodes, weights) ==
    IF node_id \notin DOMAIN nodes \/ goal_id \notin DOMAIN nodes
    THEN 0
    ELSE LET dist == euclid_3d(nodes[node_id].pos, nodes[goal_id].pos)
             w_time == Get(weights, "time", 0)
             w_dist == Get(weights, "distance", 0)
         IN  \* dist / V_MAX_MPS = dist * 10 / 16, times Unit
             w_time * dist * 10 * (Unit \div V_MAX_MPS) + w_dist * dist * Unit

-----------------------------------------------------------------------------
(* A* search: astar_route, one loop step per action *)

None == [none |-> TRUE]

UnknownStart == [ok |-> FALSE, error |-> "Unknown start node"]
UnknownGoal == [ok |-> FALSE, error |-> "Unknown goal node"]
NoPath == [ok |-> FALSE, error |-> "No path found under current constraints/state"]

\* the second thread is in neither function
NoCall ==
    [pc |-> "idle", fn |-> "", edge_id |-> <<>>, arg |-> <<>>, st |-> None,
     out |-> <<>>, store |-> <<>>, overlap |-> FALSE, ret |-> None]

\* an order that puts the entry pushed last first among equal f
EntryLess_newest_first(a, b) == a[1] < b[1] \/ (a[1] = b[1] /\ a[2] > b[2])

\* tuple order of the heap entries (f, tie, node); tie is compared before node
EntryLess(a, b) == a[1] < b[1] \/ (a[1] = b[1] /\ a[2] < b[2])

\* heapq.heappop: the smallest entry
heappop(heap) == CHOOSE e \in heap : \A o \in heap \ {e} : EntryLess(e, o)

Reverse(s) == [i \in 1..Len(s) |-> s[Len(s) + 1 - i]]

\* the reconstruction loop of lines 257-266
RECURSIVE walk_back(_, _, _, _, _)
walk_back(cf_node, cf_edge, cur, path_nodes, path_edges) ==
    IF cur \in DOMAIN cf_node
    THEN walk_back(cf_node, cf_edge, cf_node[cur],
                   Append(path_nodes, cf_node[cur]),
                   Append(path_edges, cf_edge[cur]))
    ELSE [pathNodes |-> Reverse(path_nodes), pathEdges |-> Reverse(path_edges)]

\* a reconstruction that leaves the walk in goal-to-start order
reconstruct_unreversed(cf_node, cf_edge, goal, total) ==
    LET p == walk_back(cf_node, cf_edge, goal, <<goal>>, <<>>)
    IN  [ok |-> TRUE, pathNodes |-> Reverse(p.pathNodes),
         pathEdges |-> Reverse(p.pathEdges), totalCost |-> total]

\* a reconstruction that returns the g-score of the node before the goal
reconstruct_short_total(cf_node, cf_edge, goal, total) ==
    LET p == walk_back(cf_node, cf_edge, goal, <<goal>>, <<>>)
    IN  [ok |-> TRUE, pathNodes |-> p.pathNodes, pathEdges |-> p.pathEdges,
         totalCost |-> IF goal \in DOMAIN cf_node THEN g_score[cf_node[goal]]
                       ELSE total]

reconstruct(cf_node, cf_edge, goal, total) ==
    LET p == walk_back(cf_node, cf_edge, goal, <<goal>>, <<>>)
    IN  [ok |-> TRUE, pathNodes |-> p.pathNodes, pathEdges |-> p.pathEdges,
         totalCost |-> total]

ClearedLocals ==
    /\ open_heap' = {}
    /\ tie' = 0
    /\ g_score' = EmptyDict
    /\ came_from_node' = EmptyDict
    /\ came_from_edge' = EmptyDict
    /\ in_open' = EmptyDict
    /\ closed' = EmptyDict
    /\ current' = <<>>
    /\ idx' = 0

\* locals that keep the closed set of the invocation before
new_locals_keeps_closed(start, goal, weights) ==
    /\ open_heap' = {<<heuristic(start, goal, NODES, weights), 0, start>>}
    /\ tie' = 0
    /\ g_score' = Put(EmptyDict, start, 0)
    /\ came_from_node' = EmptyDict
    /\ came_from_edge' = EmptyDict
    /\ in_open' = Put(EmptyDict, start, TRUE)
    /\ closed' = closed
    /\ current' = <<>>
    /\ idx' = 0

\* lines 236-249: the locals of a search
new_locals(start, goal, weights) ==
    /\ open_heap' = {<<heuristic(start, goal, NODES, weights), 0, start>>}
    /\ tie' = 0
    /\ g_score' = Put(EmptyDict, start, 0)
    /\ came_from_node' = EmptyDict
    /\ came_from_edge' = EmptyDict
    /\ in_open' = Put(EmptyDict, start, TRUE)
    /\ closed' = EmptyDict
    /\ current' = <<>>
    /\ idx' = 0

\* lines 231-249 with the node checks made after the locals are set up
enter_astar_checks_late(start, goal, weights) ==
    /\ new_locals(start, goal, weights)
    /\ IF start \notin DOMAIN NODES
       THEN result' = UnknownStart /\ pc' = "done"
       ELSE IF goal \notin DOMAIN NODES
       THEN result' = UnknownGoal /\ pc' = "done"
       ELSE result' = None /\ pc' = "pop"

\* lines 231-249: the node checks, then the locals
enter_astar(start, goal, weights) ==
    IF start \notin DOMAIN NODES
    THEN result' = UnknownStart /\ pc' = "done" /\ UNCHANGED locals
    ELSE IF goal \notin DOMAIN NODES
    THEN result' = UnknownGoal /\ pc' = "done" /\ UNCHANGED locals
    ELSE new_locals(start, goal, weights) /\ result' = None /\ pc' = "pop"

\* nothing read yet
NoSeen == [versions |-> {}, admitted |-> None]

\* lines 345-350: the version the edges map now in the store belongs to; while
\* api_state_update is between its two writes that version is not stored yet
StoreVersion ==
    IF update = None THEN LIVE_STATE.graphVersion
    ELSE IF "graphVersion" \in DOMAIN update THEN update.graphVersion
    ELSE LIVE_STATE.graphVersion + 1

\* line 105: one more read of the store by the running invocation
Seen(st) ==
    IF seen = None THEN None
    ELSE [versions |-> seen.versions \cup {StoreVersion}, admitted |-> st]

\* a new invocation has read nothing
Unseen == IF seen = None THEN None ELSE NoSeen

\* api_route up to its call of astar_route, and astar_route up to its loop
RouteStart(r) ==
    /\ pc = "idle"
    /\ req' = r
    /\ response' = None
    /\ reads' = 0
    /\ stale' = None
    /\ seen' = Unseen
    /\ enter_astar(r.start, r.goal, r.weights)
    /\ UNCHANGED <<graph, call, LIVE_STATE, update, prev>>

\* a for loop that is left after the first arc
NextArcBreaks ==
    /\ idx' = idx + 1
    /\ pc' = "pop"

\* the for loop moves to the next outgoing arc, or the while loop resumes
NextArc ==
    /\ idx' = idx + 1
    /\ pc' = IF idx + 1 > Len(Get(ADJ, current, <<>>)) THEN "pop" ELSE "arc"

\* a pop that takes a node for the goal only if a link leads to it
Pop_goal_needs_link ==
    /\ pc = "pop"
    /\ open_heap # {}
    /\ LET e == heappop(open_heap)
           cur == e[3]
       IN  /\ open_heap' = open_heap \ {e}
           /\ in_open' = Put(in_open, cur, FALSE)
           /\ current' = cur
           /\ stale' = IF Get(closed, cur, FALSE)
                        THEN [g_score |-> g_score,
                              came_from_node |-> came_from_node,
                              came_from_edge |-> came_from_edge,
                              open_heap |-> open_heap \ {e}]
                        ELSE None
           /\ IF cur = req.goal /\ cur \in DOMAIN came_from_node
              THEN /\ result' = reconstruct(came_from_node, came_from_edge, cur,
                                            g_score[req.goal])
                   /\ pc' = "done"
                   /\ UNCHANGED <<closed, idx>>
              ELSE /\ closed' = Put(closed, cur, TRUE)
                   /\ idx' = 1
                   /\ pc' = IF Len(Get(ADJ, cur, <<>>)) = 0 THEN "pop" ELSE "arc"
                   /\ UNCHANGED result
    /\ UNCHANGED <<graph, call, seen, LIVE_STATE, update, req, tie, g_score,
                   came_from_node,
                   came_from_edge, response, reads, prev>>

\* lines 251-269: one pop, and the return when the goal is popped
Pop ==
    /\ pc = "pop"
    /\ open_heap # {}
    /\ LET e == heappop(open_heap)
           cur == e[3]
       IN  /\ open_heap' = open_heap \ {e}
           /\ in_open' = Put(in_open, cur, FALSE)
           /\ current' = cur
           /\ stale' = IF Get(closed, cur, FALSE)
                        THEN [g_score |-> g_score,
                              came_from_node |-> came_from_node,
                              came_from_edge |-> came_from_edge,
                              open_heap |-> open_heap \ {e}]
                        ELSE None
           /\ IF cur = req.goal
              THEN /\ result' = reconstruct(came_from_node, came_from_edge, cur,
                                            g_score[req.goal])
                   /\ pc' = "done"
                   /\ UNCHANGED <<closed, idx>>
              ELSE /\ closed' = Put(closed, cur, TRUE)
                   /\ idx' = 1
                   /\ pc' = IF Len(Get(ADJ, cur, <<>>)) = 0 THEN "pop" ELSE "arc"
                   /\ UNCHANGED result
    /\ UNCHANGED <<graph, call, seen, LIVE_STATE, update, req, tie, g_score,
                   came_from_node,
                   came_from_edge, response, reads, prev>>

\* a loop that goes on waiting when the frontier is empty
Exhausted_spins ==
    /\ pc = "pop"
    /\ open_heap = {}
    /\ UNCHANGED vars

\* line 298: the frontier is empty
Exhausted ==
    /\ pc = "pop"
    /\ open_heap = {}
    /\ result' = NoPath
    /\ pc' = "done"
    /\ stale' = None
    /\ UNCHANGED <<graph, call, seen, LIVE_STATE, update, req, locals, response,
                   reads,
                   prev>>

\* a filter step that lets arcs into closed nodes through
Admit_into_closed ==
    /\ pc = "arc"
    /\ LET arc == ARCS[ADJ[current][idx]]
       IN  IF ~arc_allowed(arc, req.constraints)
           THEN NextArc /\ seen' = Seen(None)
           ELSE /\ pc' = "cost"
                /\ seen' = Seen(get_edge_state(arc.edge_id))
                /\ UNCHANGED idx
    /\ reads' = reads + 1
    /\ UNCHANGED <<graph, call, LIVE_STATE, update, req, open_heap, tie, g_score,
                   came_from_node, came_from_edge, in_open, closed, current,
                   result, response, prev, stale>>

\* a filter whose read stores the default record of an edge the store lacks
Admit_storing_default ==
    /\ pc = "arc"
    /\ LET arc == ARCS[ADJ[current][idx]]
       IN  /\ IF ~arc_allowed(arc, req.constraints) \/ Get(closed, arc.v, FALSE)
              THEN NextArc /\ seen' = Seen(None)
              ELSE /\ pc' = "cost"
                   /\ seen' = Seen(get_edge_state(arc.edge_id))
                   /\ UNCHANGED idx
           /\ LIVE_STATE' =
                 [LIVE_STATE EXCEPT
                    !.edges = IF arc.edge_id \in DOMAIN @ THEN @
                              ELSE Put(@, arc.edge_id, DefaultState)]
    /\ reads' = reads + 1
    /\ UNCHANGED <<graph, call, update, req, open_heap, tie, g_score,
                   came_from_node, came_from_edge, in_open, closed, current,
                   result, response, prev, stale>>

\* lines 271-279: the constraint filter (its own read of the live state) and
\* the closed check
Admit ==
    /\ pc = "arc"
    /\ LET arc == ARCS[ADJ[current][idx]]
       IN  IF ~arc_allowed(arc, req.constraints) \/ Get(closed, arc.v, FALSE)
           THEN NextArc /\ seen' = Seen(None)
           ELSE /\ pc' = "cost"
                /\ seen' = Seen(get_edge_state(arc.edge_id))
                /\ UNCHANGED idx
    /\ reads' = reads + 1
    /\ UNCHANGED <<graph, call, LIVE_STATE, update, req, open_heap, tie, g_score,
                   came_from_node, came_from_edge, in_open, closed, current,
                   result, response, prev, stale>>

\* a relaxation that never lowers a g-score already set
relax_first_only(neighbor, tentative_g) == neighbor \notin DOMAIN g_score

\* line 283
relax_improves(neighbor, tentative_g) ==
    neighbor \notin DOMAIN g_score \/ tentative_g < g_score[neighbor]

\* lines 281-296: the cost (a second read of the live state) and the update
Relax ==
    /\ pc = "cost"
    /\ LET e_id == ADJ[current][idx]
           arc == ARCS[e_id]
           neighbor == arc.v
           tentative_g == g_score[current] + arc_cost(arc, req.weights)
           f_score == tentative_g + heuristic(neighbor, req.goal, NODES, req.weights)
       IN  IF relax_improves(neighbor, tentative_g)
           THEN /\ came_from_node' = Put(came_from_node, neighbor, current)
                /\ came_from_edge' = Put(came_from_edge, neighbor, e_id)
                /\ g_score' = Put(g_score, neighbor, tentative_g)
                /\ tie' = tie + 1
                /\ open_heap' = open_heap \cup {<<f_score, tie + 1, neighbor>>}
                /\ in_open' = Put(in_open, neighbor, TRUE)
           ELSE UNCHANGED <<came_from_node, came_from_edge, g_score, tie,
                            open_heap, in_open>>
    /\ NextArc
    /\ reads' = reads + 1
    /\ seen' = Seen(None)
    /\ UNCHANGED <<graph, call, LIVE_STATE, update, req, closed, current, result,
                   response, prev, stale>>

\* api_route, lines 394-404: the answer carries the version read now
Respond ==
    /\ pc = "done"
    /\ response' = [graphVersion |-> LIVE_STATE.graphVersion, body |-> result]
    /\ pc' = "idle"
    /\ req' = None
    /\ result' = None
    /\ prev' = None
    /\ reads' = 0
    /\ stale' = None
    /\ ClearedLocals
    /\ UNCHANGED <<graph, call, seen, LIVE_STATE, update>>

\* the client sends the request it has just had answered once more, and keeps
\* the first answer to compare
RouteAgain ==
    /\ pc = "done"
    /\ prev = None
    /\ prev' = result
    /\ reads' = 0
    /\ stale' = None
    /\ seen' = Unseen
    /\ enter_astar(req.start, req.goal, req.weights)
    /\ UNCHANGED <<graph, call, LIVE_STATE, update, req, response>>

-----------------------------------------------------------------------------
(* api_state_update: the store is replaced, then the version is set *)

RECURSIVE IndexOf(_, _, _)
IndexOf(s, tok, i) ==
    IF i > Len(s) THEN 0 ELSE IF s[i] = tok THEN i ELSE IndexOf(s, tok, i + 1)

\* reverse_edge_id; the empty string stands for its None
reverse_edge_id(eid) ==
    LET i == IndexOf(eid, "__", 1)
    IN  IF i = 0 THEN <<>>
        ELSE SubSeq(eid, i + 1, Len(eid)) \o <<"__">> \o SubSeq(eid, 1, i - 1)

\* a loop whose result is merged into the map stored before
RECURSIVE mirror_edges_merging(_, _, _, _)
mirror_edges_merging(items, mirror, i, new_edges) ==
    IF i > Len(items) THEN new_edges @@ LIVE_STATE.edges
    ELSE LET eid == items[i][1]
             st == items[i][2]
             one == Put(new_edges, eid, st)
             rev == IF IndexOf(eid, "__", 1) = 0 THEN <<>>
                    ELSE SubSeq(eid, IndexOf(eid, "__", 1) + 1, Len(eid))
                         \o <<"__">> \o SubSeq(eid, 1, IndexOf(eid, "__", 1) - 1)
             two == IF mirror /\ rev # <<>> THEN Put(one, rev, st) ELSE one
         IN  mirror_edges_merging(items, mirror, i + 1, two)

\* the loop of lines 338-343 over edges.items(), a sequence of <<eid, st>>
RECURSIVE mirror_edges(_, _, _, _)
mirror_edges(items, mirror, i, new_edges) ==
    IF i > Len(items) THEN new_edges
    ELSE LET eid == items[i][1]
             st == items[i][2]
             one == Put(new_edges, eid, st)
             rev == reverse_edge_id(eid)
             two == IF mirror /\ rev # <<>> THEN Put(one, rev, st) ELSE one
         IN  mirror_edges(items, mirror, i + 1, two)

\* lines 324-345: the new map is built, then stored in one assignment
replace_edges(payload) ==
    /\ update = None
    /\ "graphVersion" \in DOMAIN payload \/ LIVE_STATE.graphVersion < MaxVersion
    /\ LET edges == Get(payload, "edges", <<>>)
           mirror == Get(payload, "mirrorUndirected", TRUE)
       IN  LIVE_STATE' = [LIVE_STATE EXCEPT
                            !.edges = mirror_edges(edges, mirror, 1, EmptyDict)]
    /\ update' = payload

UpdateEdges(payload) ==
    /\ replace_edges(payload)
    /\ UNCHANGED <<graph, call, seen, pc, req, locals, result, response, reads, prev,
                   stale>>

\* lines 347-352
UpdateVersion ==
    /\ update # None
    /\ LIVE_STATE' = [LIVE_STATE EXCEPT
                        !.graphVersion = IF "graphVersion" \in DOMAIN update
                                         THEN update.graphVersion
                                         ELSE LIVE_STATE.graphVersion + 1]
    /\ update' = None
    /\ UNCHANGED <<graph, call, seen, pc, req, locals, result, response, reads, prev,
                   stale>>

-----------------------------------------------------------------------------
(* get_edge_state one bytecode-level read at a time, in a second thread that *)
(* is inside arc_allowed or arc_cost while api_state_update runs.  The       *)
(* handler builds a new map and stores it with one assignment (line 345);    *)
(* neither a stored map nor a stored record is written to afterwards, so a   *)
(* reference fetched at line 105 keeps denoting the same content.            *)

\* the fields in the order lines 111-114 read them
Fields == <<"status", "crowdLevel", "speedFactor", "hazardLevel">>

\* a read that looks the record up in the store again for every field
read_field_again(st, edge_id, field) ==
    Get(Get(LIVE_STATE.edges, edge_id, <<>>), field, DefaultState[field])

\* st.get(field, default) on the record fetched at line 105
read_field(st, edge_id, field) == Get(st, field, DefaultState[field])

\* line 123 or line 150: arc_allowed or arc_cost calls get_edge_state
Call(fn, edge_id, arg) ==
    /\ call.pc \in {"idle", "done"}
    /\ call' = [NoCall EXCEPT !.pc = "ref", !.fn = fn, !.edge_id = edge_id,
                              !.arg = arg]
    /\ UNCHANGED <<graph, seen, LIVE_STATE, update, pc, req, locals, result,
                   response, reads, prev, stale>>

\* line 105; call.store remembers the map the record was fetched from
ReadRef ==
    /\ call.pc = "ref"
    /\ LET st == Get(LIVE_STATE.edges, call.edge_id, None)
       IN  call' = [call EXCEPT !.st = st, !.store = LIVE_STATE.edges,
                                !.pc = IF st = None THEN "default" ELSE "status"]
    /\ UNCHANGED <<graph, seen, LIVE_STATE, update, pc, req, locals, result,
                   response, reads, prev, stale>>

\* lines 106-108
ReadDefault ==
    /\ call.pc = "default"
    /\ call' = [call EXCEPT !.out = DefaultState, !.pc = "ret"]
    /\ UNCHANGED <<graph, seen, LIVE_STATE, update, pc, req, locals, result,
                   response, reads, prev, stale>>

NextField(f) ==
    CASE f = "status" -> "crowdLevel"
      [] f = "crowdLevel" -> "speedFactor"
      [] f = "speedFactor" -> "hazardLevel"
      [] f = "hazardLevel" -> "ret"

\* lines 110-115, one st.get(...) per step
ReadField ==
    /\ call.pc \in {Fields[i] : i \in 1..Len(Fields)}
    /\ call' = [call EXCEPT
                  !.out = Put(call.out, call.pc,
                              read_field(call.st, call.edge_id, call.pc)),
                  !.pc = NextField(call.pc)]
    /\ UNCHANGED <<graph, seen, LIVE_STATE, update, pc, req, locals, result,
                   response, reads, prev, stale>>

\* get_edge_state returns, and the caller goes on to its own return:
\* lines 124-141 of arc_allowed, lines 152-184 of arc_cost
Return ==
    /\ call.pc = "ret"
    /\ call' = [call EXCEPT
                  !.ret = IF call.fn = "arc_allowed"
                          THEN allowed_in_state(ARCS[call.edge_id], call.arg, call.out)
                          ELSE cost_in_state(ARCS[call.edge_id], call.arg, call.out),
                  !.pc = "done"]
    /\ UNCHANGED <<graph, seen, LIVE_STATE, update, pc, req, locals, result,
                   response, reads, prev, stale>>

\* lines 324-345 while the second thread is at work; call.overlap records that
\* the store was replaced between line 105 and the return of the call
UpdateEdgesDuring(payload) ==
    /\ replace_edges(payload)
    /\ call' = [call EXCEPT !.overlap = @ \/ call.pc \notin {"idle", "ref", "done"}]
    /\ UNCHANGED <<graph, seen, pc, req, locals, result, response, reads, prev,
                   stale>>

-----------------------------------------------------------------------------
(* The data the model runs on *)

A == <<"A">>
B == <<"B">>
C == <<"C">>
D == <<"D">>
X == <<"X">>

\* nodes.json: the corners of a 3 m by 4 m rectangle, every distance whole
NodesJson ==
    (A :> [pos |-> <<0, 0, 0>>]) @@ (B :> [pos |-> <<3, 0, 0>>])
    @@ (C :> [pos |-> <<0, 4, 0>>]) @@ (D :> [pos |-> <<3, 4, 0>>])

\* edges.json is a subsequence of this list that keeps at least MinEdges of it
EdgeCatalog ==
    << [from |-> A, to |-> B, ada |-> TRUE, type |-> "corridor"],
       [from |-> A, to |-> D, type |-> "Stairs"],
       [from |-> B, to |-> D, ada |-> TRUE, type |-> "stairs"],
       [from |-> A, to |-> C, ada |-> TRUE, type |-> "elevator"],
       [from |-> C, to |-> D, ada |-> TRUE],
       [from |-> B, to |-> C, ada |-> FALSE, type |-> "ramp"] >>

RECURSIVE Pick(_, _, _)
Pick(s, keep, i) ==
    IF i > Len(s) THEN <<>>
    ELSE IF i \in keep THEN <<s[i]>> \o Pick(s, keep, i + 1)
    ELSE Pick(s, keep, i + 1)

EdgeLists ==
    { Pick(EdgeCatalog, keep, 1) :
        keep \in {k \in SUBSET (1..Len(EdgeCatalog)) :
                    Cardinality(k) >= Len(EdgeCatalog) - 2} }

Endpoints == {<<A, D>>, <<B, C>>, <<A, A>>, <<X, D>>, <<A, X>>}

ConstraintSets ==
    { <<>>, [avoidStairs |-> TRUE], [requireElevator |-> TRUE],
      [avoidStairs |-> TRUE, requireElevator |-> TRUE] }

WeightVectors ==
    { <<>>, [distance |-> 1], [time |-> MaxWeight], [time |-> 1, distance |-> 1],
      [time |-> 1, distance |-> 1, crowd |-> MaxWeight],
      [distance |-> 1, risk |-> MaxWeight],
      [distance |-> -1] }

Requests ==
    { [start |-> e[1], goal |-> e[2], constraints |-> c, weights |-> w] :
        e \in Endpoints, c \in ConstraintSets, w \in WeightVectors }

Blocked == [status |-> "blocked"]
Slow == [status |-> "open", speedFactor |-> 20, crowdLevel |-> 5]
Risky == [crowdLevel |-> 15, speedFactor |-> 5, hazardLevel |-> 10]

Payloads ==
    { [edges |-> <<<<eid, st>>>>] :
        eid \in {EdgeId(A, D), EdgeId(A, B), EdgeId(C, D)},
        st \in {Blocked, Slow, Risky} }
    \cup { [edges |-> <<<<EdgeId(A, D), Blocked>>, <<EdgeId(D, B), Slow>>>>,
            mirrorUndirected |-> TRUE, graphVersion |-> 1],
           [edges |-> <<<<EdgeId(B, A), Blocked>>>>, mirrorUndirected |-> FALSE] }

-----------------------------------------------------------------------------
(* Specifications *)

\* the state before the first request, on the graph g
Started(g) ==
    /\ NODES = g.nodes /\ ADJ = g.adj /\ ARCS = g.arcs
    /\ LIVE_STATE = [graphVersion |-> 1, edges |-> EmptyDict]
    /\ update = None
    /\ pc = "idle"
    /\ req = None
    /\ open_heap = {}
    /\ tie = 0
    /\ g_score = EmptyDict
    /\ came_from_node = EmptyDict
    /\ came_from_edge = EmptyDict
    /\ in_open = EmptyDict
    /\ closed = EmptyDict
    /\ current = <<>>
    /\ idx = 0
    /\ result = None
    /\ response = None
    /\ reads = 0
    /\ prev = None
    /\ stale = None
    /\ call = NoCall

\* line 307: the state after the module is loaded
Loaded(nodes, edges) ==
    EDGES = edges /\ Started(load_graph(nodes, edges)) /\ seen = None

Search == Pop \/ Exhausted \/ Admit \/ Relax

\* Requests served while the store is replaced at any moment, on the edge
\* lists that leave out at most one edge of the catalog.
Init == \E edges \in {l \in EdgeLists : Len(l) >= Len(EdgeCatalog) - 1} :
            Loaded(NodesJson, edges)

Next ==
    \/ \E r \in Requests : RouteStart(r)
    \/ Search
    \/ Respond
    \/ \E p \in Payloads : UpdateEdges(p)
    \/ UpdateVersion

Spec == Init /\ [][Next]_vars

\* Requests served while the store is left alone: it is replaced only between
\* requests, and no request starts between the two writes of an update.
InitQuiet == \E edges \in EdgeLists : Loaded(NodesJson, edges)

NextQuiet ==
    \/ update = None /\ \E r \in Requests : RouteStart(r)
    \/ Search
    \/ Respond
    \/ pc = "idle" /\ \E p \in Payloads : UpdateEdges(p)
    \/ UpdateVersion

SpecQuiet == InitQuiet /\ [][NextQuiet]_vars

\* The same, with every request sent twice in a row.
NextTwice == NextQuiet \/ RouteAgain

SpecTwice == InitQuiet /\ [][NextTwice]_vars

-----------------------------------------------------------------------------
(* Live-state reads and store updates on their own *)

Odd == [crowdLevel |-> -5, hazardLevel |-> 15, speedFactor |-> 15]

\* the payloads above, one that names both directions of an edge with
\* different records, and one with levels outside [0, 1]
ReadPayloads ==
    Payloads
    \cup { [edges |-> <<<<EdgeId(A, D), Blocked>>, <<EdgeId(D, A), Slow>>>>],
           [edges |-> <<<<EdgeId(A, B), Odd>>>>, mirrorUndirected |-> FALSE,
            graphVersion |-> 1] }

ReadArcs == {EdgeId(A, D), EdgeId(D, B), EdgeId(A, B)}

ReadWeights ==
    { [time |-> 1, distance |-> 1, crowd |-> MaxWeight],
      [distance |-> 1, risk |-> MaxWeight],
      [time |-> MaxWeight] }

InitRead == Loaded(NodesJson, EdgeCatalog)

NextRead ==
    \/ \E e \in ReadArcs : \E c \in ConstraintSets : Call("arc_allowed", e, c)
    \/ \E e \in ReadArcs : \E w \in ReadWeights : Call("arc_cost", e, w)
    \/ ReadRef
    \/ ReadDefault
    \/ ReadField
    \/ Return
    \/ \E p \in ReadPayloads : UpdateEdgesDuring(p)
    \/ UpdateVersion

SpecRead == InitRead /\ [][NextRead]_vars

-----------------------------------------------------------------------------
(* The end-to-end example: astar_route on arcs whose lengths are given *)

\* A, B, C and D on a line, at these x coordinates
ExamplePlacements ==
    {<<0, xb, xc, xd>> : xb \in {2}, xc \in {4}, xd \in {2, 6, 10, 12}}

ExampleNodes(pl) ==
    (A :> [pos |-> <<pl[1], 0, 0>>]) @@ (B :> [pos |-> <<pl[2], 0, 0>>])
    @@ (C :> [pos |-> <<pl[3], 0, 0>>]) @@ (D :> [pos |-> <<pl[4], 0, 0>>])

ExampleEdges ==
    << [from |-> A, to |-> B], [from |-> B, to |-> C],
       [from |-> C, to |-> D], [from |-> A, to |-> D] >>

ExampleLength(u, v) == IF {u, v} = {A, D} THEN 10 ELSE 2

\* the arcs of the example: those load_graph makes of ExampleEdges, each
\* holding the length the example states for it in place of the distance
\* between its end points
example_graph(pl) ==
    LET g == load_graph(ExampleNodes(pl), ExampleEdges)
    IN  [g EXCEPT !.arcs = [e \in DOMAIN g.arcs |->
                              [g.arcs[e] EXCEPT !.length_m =
                                 ExampleLength(g.arcs[e].u, g.arcs[e].v)]]]

ExampleRequest ==
    [start |-> A, goal |-> D, constraints |-> <<>>, weights |-> [distance |-> 1]]

ExamplePayloads ==
    { [graphVersion |-> 2, edges |-> <<<<EdgeId(B, C), Blocked>>>>],
      [graphVersion |-> 3,
       edges |-> <<<<EdgeId(B, C), Blocked>>, <<EdgeId(A, D), Blocked>>>>] }

InitExample ==
    \E pl \in ExamplePlacements :
        EDGES = ExampleEdges /\ Started(example_graph(pl)) /\ seen = None

NextExample ==
    \/ update = None /\ RouteStart(ExampleRequest)
    \/ Search
    \/ Respond
    \/ pc = "idle" /\ \E p \in ExamplePayloads : UpdateEdges(p)
    \/ UpdateVersion

SpecExample == InitExample /\ [][NextExample]_vars

-----------------------------------------------------------------------------
(* A search on four nodes in a line, with the store replaced at any moment *)

\* A, B, C and D one metre apart; the arc from A to C is slowed down so that C
\* is pushed twice, and the only arc into D is blocked and opened again
LineNodes == ExampleNodes(<<0, 1, 2, 3>>)

LineEdges ==
    << [from |-> A, to |-> B], [from |-> B, to |-> C],
       [from |-> A, to |-> C], [from |-> C, to |-> D] >>

LineRequest ==
    [start |-> A, goal |-> D, constraints |-> <<>>, weights |-> [time |-> 1]]

VerySlow == [speedFactor |-> 30]

LinePayloads ==
    { [graphVersion |-> 2,
       edges |-> <<<<EdgeId(A, C), VerySlow>>, <<EdgeId(C, D), Blocked>>>>],
      [graphVersion |-> 3, edges |-> <<<<EdgeId(A, C), VerySlow>>>>] }

InitLine ==
    /\ EDGES = LineEdges
    /\ Started(load_graph(LineNodes, LineEdges))
    /\ seen = NoSeen

NextLine ==
    \/ RouteStart(LineRequest)
    \/ Search
    \/ Respond
    \/ \E p \in LinePayloads : UpdateEdges(p)
    \/ UpdateVersion

SpecLine == InitLine /\ [][NextLine]_vars

-----------------------------------------------------------------------------
(* load_graph on edge lists with unknown end points, repeated edges, a loop, *)
(* and node ids that hold the separator of the edge ids                      *)

AB == <<"A", "__", "B">>
BC == <<"B", "__", "C">>

\* four nodes at the corners of the same rectangle, two with "__" in their id
SepNodes ==
    (A :> [pos |-> <<0, 0, 0>>]) @@ (AB :> [pos |-> <<3, 0, 0>>])
    @@ (C :> [pos |-> <<0, 4, 0>>]) @@ (BC :> [pos |-> <<3, 4, 0>>])

LoadInputs ==
    { <<NodesJson,
        << [from |-> A, to |-> B, ada |-> TRUE, type |-> "corridor"],
           [from |-> A, to |-> X, ada |-> TRUE],
           [from |-> X, to |-> D],
           [from |-> B, to |-> D, type |-> "stairs"] >> >>,
      <<NodesJson,
        << [from |-> A, to |-> B, ada |-> TRUE, type |-> "corridor"],
           [from |-> B, to |-> A, ada |-> FALSE, type |-> "stairs"],
           [from |-> C, to |-> C],
           [from |-> C, to |-> D, ada |-> TRUE],
           [from |-> C, to |-> D, ada |-> TRUE] >> >>,
      <<SepNodes,
        << [from |-> AB, to |-> C, ada |-> TRUE, type |-> "elevator"],
           [from |-> A, to |-> C] >> >>,
      <<SepNodes,
        << [from |-> AB, to |-> C, ada |-> TRUE, type |-> "elevator"],
           [from |-> A, to |-> BC, type |-> "stairs"] >> >> }

LoadRequests ==
    { [start |-> e[1], goal |-> e[2], constraints |-> <<>>,
       weights |-> [distance |-> 1]] :
        e \in {<<A, D>>, <<C, A>>, <<AB, C>>, <<AB, BC>>, <<D, C>>} }

InitLoad == \E in \in LoadInputs : Loaded(in[1], in[2])

NextLoad ==
    \/ \E r \in LoadRequests : RouteStart(r)
    \/ Search
    \/ Respond

SpecLoad == InitLoad /\ [][NextLoad]_vars

-----------------------------------------------------------------------------
(* Reference definitions for the properties: exhaustive search over paths *)

Known(r) == r.start \in DOMAIN NODES /\ r.goal \in DOMAIN NODES

NonNegative(w) == \A k \in DOMAIN w : w[k] >= 0

\* the arcs the constraint filter admits under the current live state
Admitted(constraints) ==
    {ARCS[e] : e \in {x \in DOMAIN ARCS : arc_allowed(ARCS[x], constraints)}}

\* every cycle-free path of admitted arcs from n to t, as a sequence of arcs
RECURSIVE PathsFrom(_, _, _, _)
PathsFrom(n, t, visited, constraints) ==
    IF n = t THEN {<<>>}
    ELSE UNION { { <<a>> \o p : p \in PathsFrom(a.v, t, visited \cup {a.v}, constraints) } :
                 a \in {b \in Admitted(constraints) : b.u = n /\ b.v \notin visited} }

Paths(n, t, constraints) == PathsFrom(n, t, {n}, constraints)

RECURSIVE PathCost(_, _, _)
PathCost(p, weights, i) ==
    IF i > Len(p) THEN 0 ELSE arc_cost(p[i], weights) + PathCost(p, weights, i + 1)

Reachable(n, t, constraints) == Paths(n, t, constraints) # {}

\* the least cost of a path from n to t; with non-negative weights a cycle
\* never lowers a cost, so the cycle-free paths decide the minimum
MinCost(n, t, constraints, weights) ==
    LET costs == {PathCost(p, weights, 1) : p \in Paths(n, t, constraints)}
    IN  CHOOSE c \in costs : \A o \in costs : c <= o

Done == pc = "done"
Found == pc = "done" /\ result.ok

Range(s) == {s[i] : i \in 1..Len(s)}

-----------------------------------------------------------------------------
(* Properties *)

\* C1 (optimality): with non-negative weights and a store that is not replaced
\* during the search, the totalCost returned equals the least total arc_cost
\* over all start-to-goal paths made of admitted arcs.
C1_Optimality ==
    (Found /\ NonNegative(req.weights))
        => result.totalCost = MinCost(req.start, req.goal, req.constraints, req.weights)

\* a route of several arcs was returned although the direct arc is admitted:
\* the direct arc costs more
C1_Witness ==
    /\ Found
    /\ NonNegative(req.weights)
    /\ Len(result.pathEdges) >= 2
    /\ \E a \in Admitted(req.constraints) :
         /\ a.u = req.start /\ a.v = req.goal
         /\ arc_cost(a, req.weights) > result.totalCost

\* C2 (constraint enforcement): for every weight vector, with requireElevator
\* every returned edge has ada = TRUE, and with avoidStairs no returned edge is
\* of type "stairs" in any letter case.
C2_ConstraintEnforcement ==
    Found =>
        /\ Get(req.constraints, "requireElevator", FALSE)
             => \A e \in Range(result.pathEdges) : ARCS[e].ada
        /\ Get(req.constraints, "avoidStairs", FALSE)
             => \A e \in Range(result.pathEdges) :
                  ARCS[e].edge_type \notin {"stairs", "Stairs", "STAIRS"}

\* with all weights zero and both constraints set a route is returned although
\* the direct arc exists, is open, and is a non-ADA staircase
C2_Witness ==
    /\ Found
    /\ req.weights = <<>>
    /\ Get(req.constraints, "requireElevator", FALSE)
    /\ Get(req.constraints, "avoidStairs", FALSE)
    /\ Len(result.pathEdges) >= 2
    /\ \E e \in DOMAIN ARCS :
         /\ ARCS[e].u = req.start /\ ARCS[e].v = req.goal
         /\ ~ARCS[e].ada /\ ARCS[e].edge_type = "Stairs"
         /\ get_edge_state(e).status = "open"

BlockedIds == {e \in DOMAIN ARCS : get_edge_state(e).status = "blocked"}

\* C3 (live blocking): with the store left alone since an edge was blocked, no
\* returned route holds a blocked edge; a route is returned when the goal can be
\* reached through admitted arcs, and the no-path error when the blocked edges
\* cut every path the constraints would otherwise admit.
C3_LiveBlocking ==
    (Done /\ Known(req)) =>
        /\ result.ok => Range(result.pathEdges) \cap BlockedIds = {}
        /\ (BlockedIds # {} /\ Reachable(req.start, req.goal, req.constraints))
             => result.ok
        /\ (BlockedIds # {} /\ ~Reachable(req.start, req.goal, req.constraints))
             => result = NoPath

\* the direct arc is blocked, it would otherwise be admitted, and a route
\* around it is returned
C3_Witness ==
    /\ Found
    /\ Len(result.pathEdges) >= 2
    /\ \E e \in BlockedIds :
         /\ ARCS[e].u = req.start /\ ARCS[e].v = req.goal
         /\ allowed_in_state(ARCS[e], req.constraints, DefaultState)

\* C4 (no-path failure is exact): with both endpoints known and the store left
\* alone during the search, the search fails with the no-path error exactly
\* when the goal cannot be reached through admitted arcs, and returns a route
\* whenever it can.
C4_NoPathExact ==
    (Done /\ Known(req)) =>
        /\ (result = NoPath) <=> ~Reachable(req.start, req.goal, req.constraints)
        /\ Reachable(req.start, req.goal, req.constraints) => result.ok

\* the search failed although the start has outgoing arcs and the goal
\* incoming ones
C4_Witness ==
    /\ Done /\ Known(req)
    /\ result = NoPath
    /\ Len(ADJ[req.start]) > 0
    /\ \E e \in DOMAIN ARCS : ARCS[e].v = req.goal

\* C5 (unknown-node failure): with an unknown start or goal the invocation ends
\* in the unknown-node failure, which is neither the no-path failure nor a
\* route, with no frontier, g-score or predecessor created and no live state
\* read.
C5_UnknownNode ==
    (Done /\ ~Known(req)) =>
        /\ result = (IF req.start \notin DOMAIN NODES THEN UnknownStart ELSE UnknownGoal)
        /\ result # NoPath
        /\ ~result.ok
        /\ open_heap = {}
        /\ g_score = EmptyDict
        /\ came_from_node = EmptyDict
        /\ came_from_edge = EmptyDict
        /\ reads = 0

C5_Witness ==
    /\ Done
    /\ req.start \in DOMAIN NODES
    /\ req.goal \notin DOMAIN NODES
    /\ result = UnknownGoal
    /\ Len(ADJ[req.start]) > 0

C7_NonNegativeCost ==
    (pc # "idle") =>
        /\ \A e \in DOMAIN ARCS : arc_cost(ARCS[e], req.weights) >= 0
        /\ Found => result.totalCost >= 0

TimeDistanceOnly(w) == Get(w, "crowd", 0) = 0 /\ Get(w, "risk", 0) = 0

Entered == pc = "pop" /\ tie = 0 /\ closed = EmptyDict

\* C10 (admissibility): with non-negative time and distance weights only, the
\* heuristic of a node from which the goal can be reached is at most the least
\* total arc_cost of a path from it to the goal through admitted arcs;
\* the heuristic of the goal is 0; the crowd and risk weights add nothing to it.
C10_Admissible ==
    Entered =>
        /\ heuristic(req.goal, req.goal, NODES, req.weights) = 0
        /\ \A n \in DOMAIN NODES :
             /\ (/\ TimeDistanceOnly(req.weights)
                 /\ NonNegative(req.weights)
                 /\ Reachable(n, req.goal, req.constraints))
                  => heuristic(n, req.goal, NODES, req.weights)
                       <= MinCost(n, req.goal, req.constraints, req.weights)
             /\ heuristic(n, req.goal, NODES, req.weights)
                  = heuristic(n, req.goal, NODES,
                              [time |-> Get(req.weights, "time", 0),
                               distance |-> Get(req.weights, "distance", 0)])

\* a search by time starts at a node whose heuristic is positive and strictly
\* below the least cost to the goal, under a store that slows an arc down
C10_Witness ==
    /\ Entered
    /\ TimeDistanceOnly(req.weights)
    /\ Get(req.weights, "time", 0) > 0
    /\ LIVE_STATE.edges # EmptyDict
    /\ Reachable(req.start, req.goal, req.constraints)
    /\ heuristic(req.start, req.goal, NODES, req.weights) > 0
    /\ heuristic(req.start, req.goal, NODES, req.weights)
         < MinCost(req.start, req.goal, req.constraints, req.weights)

ExampleAnswers ==
    /\ BlockedIds = {}
         => result = [ok |-> TRUE,
                      pathNodes |-> <<A, B, C, D>>,
                      pathEdges |-> << <<"A", "__", "B">>, <<"B", "__", "C">>,
                                       <<"C", "__", "D">> >>,
                      totalCost |-> 6 * Unit]
    /\ BlockedIds = {<<"B", "__", "C">>, <<"C", "__", "B">>}
         => result = [ok |-> TRUE,
                      pathNodes |-> <<A, D>>,
                      pathEdges |-> << <<"A", "__", "D">> >>,
                      totalCost |-> 10 * Unit]
    /\ BlockedIds = {<<"B", "__", "C">>, <<"C", "__", "B">>,
                     <<"A", "__", "D">>, <<"D", "__", "A">>}
         => result = NoPath

ExampleFits ==
    /\ euclid_3d(NODES[A].pos, NODES[D].pos) <= 6
    /\ euclid_3d(NODES[B].pos, NODES[D].pos) <= 4
    /\ euclid_3d(NODES[C].pos, NODES[D].pos) <= 2

-----------------------------------------------------------------------------
(* Properties of the constraint filter, the live-state read and the update *)

Set(constraints, k) == k \in DOMAIN constraints /\ constraints[k]

\* C11 (constraint filter decision): arc_allowed returns false exactly when the
\* record it read is blocked, or avoidStairs is set and the arc's type is
\* "stairs" in any letter case, or requireElevator is set and the arc's ada
\* flag is false; a constraint field that is absent counts as false.
C11_FilterDecision ==
    (call.pc = "done" /\ call.fn = "arc_allowed") =>
        LET arc == ARCS[call.edge_id]
            rejected ==
                \/ call.out.status = "blocked"
                \/ /\ Set(call.arg, "avoidStairs")
                   /\ arc.edge_type \in {"stairs", "Stairs", "STAIRS"}
                \/ Set(call.arg, "requireElevator") /\ ~arc.ada
        IN  call.ret = ~rejected

\* with requireElevator alone, an open staircase whose ada flag is true is
\* admitted
C11_Witness ==
    /\ call.pc = "done"
    /\ call.fn = "arc_allowed"
    /\ call.arg = [requireElevator |-> TRUE]
    /\ ARCS[call.edge_id].edge_type = "stairs"
    /\ ARCS[call.edge_id].ada
    /\ call.out.status = "open"
    /\ call.ret = TRUE

\* the ids an update stores: the ids its payload names and, when it mirrors,
\* their reversals
StoredIds(payload) ==
    LET edges == Get(payload, "edges", <<>>)
        ids == {edges[i][1] : i \in 1..Len(edges)}
    IN  IF Get(payload, "mirrorUndirected", TRUE)
        THEN ids \cup ({reverse_edge_id(e) : e \in ids} \ {<<>>})
        ELSE ids

\* C12 (live-state read): an edge id absent from the store the read looked at
\* resolves to open, 0, 1.0, 0; a stored record gives its own fields and the
\* default for each field it lacks; and once an update has replaced the store,
\* every edge id the new store does not hold resolves to the defaults.
C12_ReadResolves ==
    /\ (call.pc = "done" /\ call.edge_id \notin DOMAIN call.store) =>
          call.out = [status |-> "open", crowdLevel |-> 0, speedFactor |-> 10,
                      hazardLevel |-> 0]
    /\ (call.pc = "done" /\ call.edge_id \in DOMAIN call.store) =>
          LET stored == call.store[call.edge_id]
          IN  /\ call.out.status =
                   IF "status" \in DOMAIN stored THEN stored.status ELSE "open"
              /\ call.out.crowdLevel =
                   IF "crowdLevel" \in DOMAIN stored THEN stored.crowdLevel ELSE 0
              /\ call.out.speedFactor =
                   IF "speedFactor" \in DOMAIN stored THEN stored.speedFactor ELSE 10
              /\ call.out.hazardLevel =
                   IF "hazardLevel" \in DOMAIN stored THEN stored.hazardLevel ELSE 0
    /\ update # None =>
          \A e \in DOMAIN ARCS :
              e \notin StoredIds(update) =>
                  get_edge_state(e) = [status |-> "open", crowdLevel |-> 0,
                                       speedFactor |-> 10, hazardLevel |-> 0]

\* an edge was read as blocked, and the update that has just replaced the store
\* does not name it: it resolves to the defaults
C12_Witness ==
    /\ call.pc = "done"
    /\ call.out.status = "blocked"
    /\ update # None
    /\ call.edge_id \notin StoredIds(update)
    /\ get_edge_state(call.edge_id).status = "open"

\* C13 (torn-free reads): whatever updates run during a call of
\* get_edge_state, the record it returns is the one a single version of the
\* store gives for the edge, the version current when line 105 ran.
C13_TornFree ==
    call.pc = "done" => call.out = edge_state_of(call.store, call.edge_id)

\* the store was replaced while the four fields were being read, and the edge
\* now resolves to something else than what the call returned
C13_Witness ==
    /\ call.pc = "done"
    /\ call.overlap
    /\ call.st # None
    /\ get_edge_state(call.edge_id) # call.out

Levels == {-5, 0, 5, 10, 15, 20}

Clamp01(x) == IF x < 0 THEN 0 ELSE IF x > 10 THEN 10 ELSE x

\* C18 (cost monotonicity): with non-negative weights the cost arc_cost
\* returned does not fall when crowdLevel, hazardLevel or speedFactor is
\* raised and does not rise when one is lowered; a speedFactor below 1 costs
\* what speedFactor 1 costs, and levels outside [0, 1] cost what the clamped
\* levels cost.
C18_CostMonotone ==
    (call.pc = "done" /\ call.fn = "arc_cost" /\ NonNegative(call.arg)) =>
        LET arc == ARCS[call.edge_id]
            st == call.out
            cost(s) == cost_in_state(arc, call.arg, s)
        IN  /\ \A f \in {"crowdLevel", "hazardLevel", "speedFactor"} :
                 \A x \in Levels :
                    /\ x >= st[f] => cost([st EXCEPT ![f] = x]) >= call.ret
                    /\ x <= st[f] => cost([st EXCEPT ![f] = x]) <= call.ret
            /\ st.speedFactor < 10 => cost([st EXCEPT !.speedFactor = 10]) = call.ret
            /\ cost([st EXCEPT !.crowdLevel = Clamp01(@),
                               !.hazardLevel = Clamp01(@)]) = call.ret

\* a cost by time and crowd was returned for a record with a speedFactor below
\* 1 and a crowdLevel above 1
C18_Witness ==
    /\ call.pc = "done"
    /\ call.fn = "arc_cost"
    /\ Get(call.arg, "time", 0) > 0
    /\ Get(call.arg, "crowd", 0) > 0
    /\ call.out.speedFactor < 10
    /\ call.out.crowdLevel > 10
    /\ call.ret > 0

-----------------------------------------------------------------------------
(* Properties of the search loop *)

\* C15 (stale frontier entries are ignored): from the pop of an entry whose node
\* is closed already until the next pop, the g-scores, the predecessor links
\* and the frontier stay as that pop left them, and no arc of the node reaches
\* the relaxation of lines 281-296.
C15_StaleIgnored ==
    stale # None =>
        /\ g_score = stale.g_score
        /\ came_from_node = stale.came_from_node
        /\ came_from_edge = stale.came_from_edge
        /\ open_heap = stale.open_heap
        /\ pc # "cost"

Searching == pc \in {"pop", "arc", "cost"}

ClosedNodes == {n \in DOMAIN closed : closed[n]}

\* h(u) <= cost(u -> v) + h(v) for every arc, under the current live state
Consistent(goal, weights) ==
    \A e \in DOMAIN ARCS :
        heuristic(ARCS[e].u, goal, NODES, weights)
            <= arc_cost(ARCS[e], weights) + heuristic(ARCS[e].v, goal, NODES, weights)

\* C16 (heuristic consistency and closed-node finality): with non-negative
\* weights the heuristic of an arc's source is at most the arc's cost plus the
\* heuristic of its target; the g-score of a closed node is the least cost of a
\* path from start to it; and while a search runs, the g-score and the
\* predecessor link of a closed node never change.
C16_ClosedFinal ==
    /\ []((pc \in {"pop", "done"} /\ Known(req) /\ NonNegative(req.weights)) =>
            /\ Consistent(req.goal, req.weights)
            /\ \A n \in ClosedNodes :
                 g_score[n] = MinCost(req.start, n, req.constraints, req.weights))
    /\ [][(Searching /\ pc' # "idle") =>
            \A n \in ClosedNodes :
                /\ g_score'[n] = g_score[n]
                /\ Get(came_from_node', n, <<>>) = Get(came_from_node, n, <<>>)
                /\ Get(came_from_edge', n, <<>>) = Get(came_from_edge, n, <<>>)]_vars

\* three nodes are closed in a search by time under a store that is not empty,
\* one of them reached through another node than start
C16_Witness ==
    /\ pc = "pop"
    /\ NonNegative(req.weights)
    /\ Get(req.weights, "time", 0) > 0
    /\ LIVE_STATE.edges # EmptyDict
    /\ Cardinality(ClosedNodes) >= 3
    /\ \E n \in ClosedNodes :
         n \in DOMAIN came_from_node /\ came_from_node[n] # req.start

RECURSIVE SumCost(_, _, _)
SumCost(edges, weights, i) ==
    IF i > Len(edges) THEN 0
    ELSE arc_cost(ARCS[edges[i]], weights) + SumCost(edges, weights, i + 1)

\* C17 (total cost accounting): with the store left alone during the search,
\* the g-score of every node that has a predecessor is the predecessor's g-score
\* plus the cost of the arc between them, and the totalCost returned is the
\* g-score of the goal and the sum of arc_cost over the returned edges.
C17_CostAccounting ==
    /\ (Searching \/ Found) =>
          \A n \in DOMAIN came_from_node :
              g_score[n] = g_score[came_from_node[n]]
                             + arc_cost(ARCS[came_from_edge[n]], req.weights)
    /\ Found =>
          /\ result.totalCost = g_score[req.goal]
          /\ result.totalCost = SumCost(result.pathEdges, req.weights, 1)

\* a route of at least two edges is returned, one of them over an arc the store
\* slows down, at a cost by time and distance
C17_Witness ==
    /\ Found
    /\ Len(result.pathEdges) >= 2
    /\ Get(req.weights, "time", 0) > 0
    /\ Get(req.weights, "distance", 0) > 0
    /\ \E i \in 1..Len(result.pathEdges) :
         get_edge_state(result.pathEdges[i]).speedFactor > 10
    /\ result.totalCost > 0

\* C19 (frontier ordering): no two frontier entries carry the same sequence
\* number and none a number above the counter; a pop removes the one entry
\* whose f is smallest and, among those of equal f, whose sequence number is
\* smallest; a push raises the counter by one and carries the new value.
C19_FrontierOrder ==
    /\ [](/\ \A a \in open_heap : \A b \in open_heap : a # b => a[2] # b[2]
          /\ \A a \in open_heap : a[2] <= tie)
    /\ [][/\ (pc = "pop" /\ open_heap' # open_heap) =>
                LET gone == open_heap \ open_heap'
                IN  /\ Cardinality(gone) = 1
                    /\ open_heap' \subseteq open_heap
                    /\ \A e \in gone :
                         /\ e[3] = current'
                         /\ \A o \in open_heap' :
                              e[1] < o[1] \/ (e[1] = o[1] /\ e[2] < o[2])
          /\ (pc = "cost" /\ open_heap' # open_heap) =>
                LET new == open_heap' \ open_heap
                IN  /\ Cardinality(new) = 1
                    /\ open_heap \subseteq open_heap'
                    /\ tie' = tie + 1
                    /\ \A e \in new : e[2] = tie'
          /\ (pc = "cost" /\ open_heap' = open_heap) => tie' = tie]_vars

\* a node has just been popped in a search by distance while two entries of
\* one and the same f stay behind
C19_Witness ==
    /\ pc = "pop"
    /\ Get(req.weights, "distance", 0) > 0
    /\ \E a \in open_heap : \E b \in open_heap :
         a # b /\ a[1] = b[1] /\ a[3] # b[3] /\ a[1] > 0

-----------------------------------------------------------------------------
(* Properties of the graph construction *)

\* the input edges both of whose end points are nodes
ValidEdges ==
    {i \in 1..Len(EDGES) :
        EDGES[i].from \in DOMAIN NODES /\ EDGES[i].to \in DOMAIN NODES}

\* C20 (graph construction): every input edge between two known nodes has its
\* two arcs "{from}__{to}" and "{to}__{from}", running between its end points in
\* the two directions, of equal length, ada flag and type; no other arc exists,
\* so an edge with an unknown end point makes none; every node has an
\* adjacency list; and every edge id in the list of a node names an arc that
\* leaves that node.
C20_GraphConstruction ==
    /\ \A i \in ValidEdges :
         LET u == EDGES[i].from
             v == EDGES[i].to
             fwd == u \o <<"__">> \o v
             bwd == v \o <<"__">> \o u
         IN  /\ fwd \in DOMAIN ARCS /\ bwd \in DOMAIN ARCS
             /\ ARCS[fwd].u = u /\ ARCS[fwd].v = v
             /\ ARCS[bwd].u = v /\ ARCS[bwd].v = u
             /\ ARCS[fwd].length_m = ARCS[bwd].length_m
             /\ ARCS[fwd].ada = ARCS[bwd].ada
             /\ ARCS[fwd].edge_type = ARCS[bwd].edge_type
    /\ DOMAIN ARCS =
         UNION { { EDGES[i].from \o <<"__">> \o EDGES[i].to,
                   EDGES[i].to \o <<"__">> \o EDGES[i].from } : i \in ValidEdges }
    /\ \A a \in DOMAIN ARCS :
         \E i \in ValidEdges : {ARCS[a].u, ARCS[a].v} = {EDGES[i].from, EDGES[i].to}
    /\ DOMAIN ADJ = DOMAIN NODES
    /\ \A n \in DOMAIN ADJ :
         \A k \in 1..Len(ADJ[n]) :
             ADJ[n][k] \in DOMAIN ARCS /\ ARCS[ADJ[n][k]].u = n

-----------------------------------------------------------------------------
\* a step of the invocation: of astar_route, or of api_route around it
RouteStep ==
    <<pc, req, locals, result, response, reads, prev>>' #
        <<pc, req, locals, result, response, reads, prev>>

-----------------------------------------------------------------------------
\* The search runs in a thread of its own, takes no lock and waits for nothing
\* (lines 251-298), so a scheduler that is fair to threads lets it take its
\* next step; updates may arrive for ever.
\* the whole catalogue, and the catalogue without the direct edge A-D
LiveEdgeLists ==
    {Pick(EdgeCatalog, (1..Len(EdgeCatalog)) \ drop, 1) : drop \in {{}, {2}}}

InitLive == \E edges \in LiveEdgeLists : Loaded(NodesJson, edges)

SpecLive == InitLive /\ [][Next]_vars /\ WF_vars(Search)

\* C22 (termination): a search that has started ends, with a path or with a
\* failure, whatever the graph, the weights (negative ones included) and the
\* replacements of the live-state store made while it runs.
C22_Termination == Searching ~> pc = "done"

\* a search with a negative weight has ended after it closed three nodes,
\* while an update was in flight
C22_Witness ==
    /\ pc = "done" /\ ~NonNegative(req.weights)
    /\ Cardinality(ClosedNodes) >= 3 /\ update # None

-----------------------------------------------------------------------------
\* C23 (admission and pricing agree): whenever an arc is priced, the record
\* arc_cost reads for its edge is the record arc_allowed read when it admitted
\* the arc, and its status is not "blocked", also while api_state_update
\* replaces the store.
C23_SameRecord ==
    [][(pc = "cost" /\ pc' # "cost")
         => LET st == get_edge_state(ARCS[ADJ[current][idx]].edge_id)
            IN  st = seen.admitted /\ st.status # "blocked"]_vars

-----------------------------------------------------------------------------
\* C24 (reported version): the graphVersion api_route answers with is the
\* version of the store whose edge records the search read, and in no state
\* does the store hold an edges map together with the graphVersion of the map
\* it replaced, so that no reader of the store can see the two together.
C24_ReportedVersion ==
    /\ (pc = "idle" /\ response # None /\ seen.versions # {})
          => seen.versions = {response.graphVersion}
    /\ LIVE_STATE.graphVersion = StoreVersion

-----------------------------------------------------------------------------
\* C25 (start equals goal): a search from a known node to itself returns the
\* path [start] with no edge and total cost 0, whatever the constraints, the
\* weights and the live state, and it reads no edge state, pushes nothing and
\* closes nothing on the way.
C25_StartIsGoal ==
    (pc = "done" /\ req.start = req.goal /\ req.start \in DOMAIN NODES)
      => /\ result = [ok |-> TRUE, pathNodes |-> <<req.start>>,
                      pathEdges |-> <<>>, totalCost |-> 0]
         /\ reads = 0 /\ tie = 0 /\ ClosedNodes = {}
         /\ DOMAIN g_score = {req.start}

\* such a search has ended while no arc out of its node was admitted: each is
\* blocked in the store or rejected by the constraints
C25_Witness ==
    /\ pc = "done" /\ req.start = req.goal /\ req.start \in DOMAIN NODES
    /\ Len(ADJ[req.start]) >= 2
    /\ \A k \in 1..Len(ADJ[req.start]) :
         ~arc_allowed(ARCS[ADJ[req.start][k]], req.constraints)
    /\ \E k \in 1..Len(ADJ[req.start]) :
         get_edge_state(ADJ[req.start][k]).status = "blocked"
    /\ \E k \in 1..Len(ADJ[req.start]) :
         get_edge_state(ADJ[req.start][k]).status # "blocked"

-----------------------------------------------------------------------------
\* the node reached from n by following k predecessor links, or n's last
\* ancestor if there are fewer
RECURSIVE Ancestor(_, _)
Ancestor(n, k) ==
    IF k = 0 \/ n \notin DOMAIN came_from_node THEN n
    ELSE Ancestor(came_from_node[n], k - 1)

\* C26 (predecessor forest): at every point of a search the start has no
\* predecessor, the predecessor of a node is a closed node and the source of
\* the recorded arc into it, and the links from every node lead to the start
\* without a cycle; a returned path begins at the start, ends at the goal and
\* holds no node twice.  This is so for every weight vector and every
\* sequence of live-state changes.
C26_PredecessorForest ==
    (pc # "idle" /\ Known(req))
      => /\ req.start \notin DOMAIN came_from_node
         /\ DOMAIN came_from_edge = DOMAIN came_from_node
         /\ \A n \in DOMAIN came_from_node :
              /\ came_from_node[n] \in ClosedNodes
              /\ ARCS[came_from_edge[n]].u = came_from_node[n]
              /\ ARCS[came_from_edge[n]].v = n
              /\ Ancestor(n, Cardinality(DOMAIN NODES) - 1) = req.start
         /\ Found
              => /\ result.pathNodes[1] = req.start
                 /\ result.pathNodes[Len(result.pathNodes)] = req.goal
                 /\ Cardinality(Range(result.pathNodes)) = Len(result.pathNodes)

\* a search with a negative weight has popped an entry of a node that was
\* closed already, after an update, and every node but the start has a link
C26_Witness ==
    /\ Searching /\ stale # None /\ ~NonNegative(req.weights)
    /\ LIVE_STATE.edges # EmptyDict
    /\ DOMAIN came_from_node = DOMAIN NODES \ {req.start}

====
